---- MODULE Spec2Model ----
(***************************************************************************)
(* Model of the teaching snippets of interview-guides:                     *)
(*   decorators.py  - require_login, the access guard around a function    *)
(*   dictionary.py  - the walkthrough of dict operations on `person`       *)
(* (lambda_practice.py only binds lambdas and prints nothing.)             *)
(* Python values are tagged records so that `==`, str() and repr() can be  *)
(* modelled by what Python does with each type.                            *)
(***************************************************************************)
EXTENDS Integers, Sequences, FiniteSets, TLC

VARIABLES func, last, prev, person, out, dpc

vars == <<func, last, prev, person, out, dpc>>

\* ---------------------------------------------------------------- bounds
\* integers supplied as a login flag range over -MaxInt..MaxInt
MaxInt == 1
\* lists supplied as a login flag have at most MaxLen elements
MaxLen == 1

\* --------------------------------------------------------- Python values
PyBool(b) == [t |-> "bool", n |-> IF b THEN 1 ELSE 0, s |-> "", l |-> <<>>]
PyInt(i) == [t |-> "int", n |-> i, s |-> "", l |-> <<>>]
\* a float with the integral value i (0.0, 1.0, ...)
PyFloat(i) == [t |-> "float", n |-> i, s |-> "", l |-> <<>>]
PyStr(str) == [t |-> "str", n |-> 0, s |-> str, l |-> <<>>]
\* a list of integers
PyList(seq) == [t |-> "list", n |-> 0, s |-> "", l |-> seq]
PyNone == [t |-> "NoneType", n |-> 0, s |-> "", l |-> <<>>]

IsNumber(v) == v.t \in {"bool", "int", "float"}

\* Python's `a == b`: bool is a subclass of int and numbers compare by
\* value across bool/int/float; str, list and None only equal their own type.
PyEq(a, b) ==
    IF IsNumber(a) /\ IsNumber(b) THEN a.n = b.n
    ELSE IF a.t = "str" /\ b.t = "str" THEN a.s = b.s
    ELSE IF a.t = "list" /\ b.t = "list" THEN a.l = b.l
    ELSE a.t = "NoneType" /\ b.t = "NoneType"

\* Python's truth value of v (bool(v)).
Truthy(v) ==
    IF IsNumber(v) THEN v.n /= 0
    ELSE IF v.t = "str" THEN v.s /= ""
    ELSE IF v.t = "list" THEN Len(v.l) > 0
    ELSE FALSE

RECURSIVE JoinInts(_)
JoinInts(seq) ==
    IF Len(seq) = 0 THEN ""
    ELSE IF Len(seq) = 1 THEN ToString(seq[1])
    ELSE ToString(seq[1]) \o ", " \o JoinInts(Tail(seq))

\* repr(v)
Repr(v) ==
    IF v.t = "bool" THEN (IF v.n = 1 THEN "True" ELSE "False")
    ELSE IF v.t = "int" THEN ToString(v.n)
    ELSE IF v.t = "float" THEN ToString(v.n) \o ".0"
    ELSE IF v.t = "str" THEN "'" \o v.s \o "'"
    ELSE IF v.t = "list" THEN "[" \o JoinInts(v.l) \o "]"
    ELSE "None"

\* str(v), as used by print and by f-string interpolation
Str(v) == IF v.t = "str" THEN v.s ELSE Repr(v)

\* ----------------------------------------------------------------- dicts
\* A dict is its insertion-ordered sequence of <<key, value>> items.
HasKey(d, k) == \E i \in 1..Len(d) : d[i][1] = k

\* d.keys(), d.values(): the keys and the values in insertion order
DictKeys(d) == [i \in 1..Len(d) |-> d[i][1]]
DictValues(d) == [i \in 1..Len(d) |-> d[i][2]]

\* d.get(k, default)
DictGet(d, k, default) ==
    IF HasKey(d, k)
    THEN d[CHOOSE i \in 1..Len(d) : d[i][1] = k][2]
    ELSE default

\* d[k] = v
DictSet(d, k, v) ==
    IF HasKey(d, k)
    THEN [i \in 1..Len(d) |-> IF d[i][1] = k THEN <<k, v>> ELSE d[i]]
    ELSE Append(d, <<k, v>>)

\* d.update(e) assigning instead of merging
DictUpdate_replace(d, e) == e

\* d.update(e)
RECURSIVE DictUpdate(_, _)
DictUpdate(d, e) ==
    IF Len(e) = 0 THEN d
    ELSE DictUpdate(DictSet(d, e[1][1], e[1][2]), Tail(e))

\* ------------------------------------------------------- decorators.py
DENIED == PyStr("Access Denied")

\* outcome of a call: how it ended (kind "return" or "raise"), the value
\* returned or raised, the arguments the wrapped function was invoked with
\* (in order), and the identity record as the call left it
Outcome(kind, value, invoked, user) ==
    [kind |-> kind, value |-> value, invoked |-> invoked, user |-> user]

\* the decorated function of the snippet
access_dashboard(user) ==
    [kind |-> "return",
     value |-> PyStr("Welcome " \o Str(DictGet(user, "name", PyNone))
                     \o ". Access to the dashboard.")]

\* a wrapped function that fails: it raises instead of returning
failing_op(user) == [kind |-> "raise", value |-> PyStr("RuntimeError")]

\* the functions handed to require_login
Funcs == {"access_dashboard", "failing_op"}

\* func(user)
Invoke(f, user) ==
    IF f = "access_dashboard" THEN access_dashboard(user) ELSE failing_op(user)

\* wrapper that runs func before looking at the flag
wrapper_call_first(f, user) ==
    LET r == Invoke(f, user) IN
    IF PyEq(DictGet(user, "isLoggedIn", PyNone), PyBool(FALSE))
    THEN Outcome("return", DENIED, <<user>>, user)
    ELSE Outcome(r.kind, r.value, <<user>>, user)

\* wrapper that forgets to return func's result (returns None)
wrapper_drop_result(f, user) ==
    IF PyEq(DictGet(user, "isLoggedIn", PyNone), PyBool(FALSE))
    THEN Outcome("return", DENIED, <<>>, user)
    ELSE LET r == Invoke(f, user) IN
         Outcome(r.kind, IF r.kind = "return" THEN PyNone ELSE r.value,
                 <<user>>, user)

\* wrapper that tests the flag's truth value: `if not user.get(...)`
wrapper_truthiness(f, user) ==
    IF ~Truthy(DictGet(user, "isLoggedIn", PyNone))
    THEN Outcome("return", DENIED, <<>>, user)
    ELSE LET r == Invoke(f, user) IN
         Outcome(r.kind, r.value, <<user>>, user)

\* wrapper that admits only the flag True: `if user.get(...) != True`
wrapper_strict_true(f, user) ==
    IF ~PyEq(DictGet(user, "isLoggedIn", PyNone), PyBool(TRUE))
    THEN Outcome("return", DENIED, <<>>, user)
    ELSE LET r == Invoke(f, user) IN
         Outcome(r.kind, r.value, <<user>>, user)

\* wrapper that logs the user out after a permitted call
wrapper_logout(f, user) ==
    IF PyEq(DictGet(user, "isLoggedIn", PyNone), PyBool(FALSE))
    THEN Outcome("return", DENIED, <<>>, user)
    ELSE LET r == Invoke(f, user) IN
         Outcome(r.kind, r.value, <<user>>,
                 DictSet(user, "isLoggedIn", PyBool(FALSE)))

\* wrapper that catches func's exception and answers with the denial
wrapper_swallow(f, user) ==
    IF PyEq(DictGet(user, "isLoggedIn", PyNone), PyBool(FALSE))
    THEN Outcome("return", DENIED, <<>>, user)
    ELSE LET r == Invoke(f, user) IN
         IF r.kind = "raise"
         THEN Outcome("return", DENIED, <<user>>, user)
         ELSE Outcome(r.kind, r.value, <<user>>, user)

\* wrapper that also turns away the user named Guest
wrapper_by_name(f, user) ==
    IF PyEq(DictGet(user, "isLoggedIn", PyNone), PyBool(FALSE))
       \/ PyEq(DictGet(user, "name", PyNone), PyStr("Guest"))
    THEN Outcome("return", DENIED, <<>>, user)
    ELSE LET r == Invoke(f, user) IN
         Outcome(r.kind, r.value, <<user>>, user)

\* require_login.wrapper: one call of the guarded function
wrapper(f, user) ==
    IF PyEq(DictGet(user, "isLoggedIn", PyNone), PyBool(FALSE))
    THEN Outcome("return", DENIED, <<>>, user)
    ELSE LET r == Invoke(f, user) IN
         Outcome(r.kind, r.value, <<user>>, user)

user1 == << <<"name", PyStr("Dheeraj")>>, <<"isLoggedIn", PyBool(TRUE)>> >>
user2 == << <<"name", PyStr("Guest")>>, <<"isLoggedIn", PyBool(FALSE)>> >>

\* values a caller may store under isLoggedIn
RECURSIVE IntSeqs(_)
IntSeqs(n) ==
    IF n = 0 THEN {<<>>}
    ELSE IntSeqs(n - 1) \cup {Append(q, 1) : q \in {x \in IntSeqs(n - 1) : Len(x) = n - 1}}

LoginValues ==
    {PyBool(TRUE), PyBool(FALSE), PyNone, PyStr(""), PyStr("yes")}
    \cup {PyInt(i) : i \in (-MaxInt)..MaxInt}
    \cup {PyFloat(i) : i \in 0..MaxInt}
    \cup {PyList(q) : q \in IntSeqs(MaxLen)}

NameItems == {<<>>} \cup {<< <<"name", PyStr(nm)>> >> : nm \in {"Dheeraj", "Guest"}}
LoginItems == {<<>>} \cup {<< <<"isLoggedIn", v>> >> : v \in LoginValues}

\* identity records: dict literals with or without each of the two keys
Users == {ni \o li : ni \in NameItems, li \in LoginItems}

\* no call made yet on the current guarded function
NoCall ==
    [kind |-> "none", value |-> PyNone, invoked |-> <<>>, user |-> <<>>,
     arg |-> <<>>, again |-> FALSE]

CallRecord(f, u, again) ==
    LET r == wrapper(f, u) IN
    [kind |-> r.kind, value |-> r.value, invoked |-> r.invoked,
     user |-> r.user, arg |-> u, again |-> again]

\* require_login(f): build a new guarded function around f
require_login(f) ==
    /\ func' = f
    /\ last' = NoCall
    /\ prev' = NoCall
    /\ UNCHANGED <<person, out, dpc>>

\* call the guarded function on a freshly built identity record u
Call(u) ==
    /\ last' = CallRecord(func, u, FALSE)
    /\ prev' = last
    /\ UNCHANGED <<func, person, out, dpc>>

\* call the guarded function again on the identity record of the last call
CallAgain ==
    /\ last.kind /= "none"
    /\ last' = CallRecord(func, last.user, TRUE)
    /\ prev' = last
    /\ UNCHANGED <<func, person, out, dpc>>

\* ------------------------------------------------------- dictionary.py
person0 == << <<"name", PyStr("Alice")>>, <<"age", PyInt(25)>> >>

RECURSIVE JoinStrs(_)
JoinStrs(seq) ==
    IF Len(seq) = 0 THEN ""
    ELSE IF Len(seq) = 1 THEN seq[1]
    ELSE seq[1] \o ", " \o JoinStrs(Tail(seq))

ReprKeys(d) ==
    "dict_keys([" \o JoinStrs([i \in 1..Len(d) |-> Repr(PyStr(DictKeys(d)[i]))]) \o "])"
ReprValues(d) ==
    "dict_values([" \o JoinStrs([i \in 1..Len(d) |-> Repr(DictValues(d)[i])]) \o "])"
ReprItems(d) ==
    "dict_items(["
    \o JoinStrs([i \in 1..Len(d) |->
           "(" \o Repr(PyStr(d[i][1])) \o ", " \o Repr(d[i][2]) \o ")"])
    \o "])"
ReprDict(d) ==
    "{"
    \o JoinStrs([i \in 1..Len(d) |->
           Repr(PyStr(d[i][1])) \o ": " \o Repr(d[i][2])])
    \o "}"

\* lines 6-7: objKeys = person.keys(); print(objKeys)
PrintKeys ==
    /\ dpc = 6
    /\ out' = Append(out, ReprKeys(person))
    /\ dpc' = 13
    /\ UNCHANGED <<person, func, last, prev>>

\* line 13: print(person.values())
PrintValues ==
    /\ dpc = 13
    /\ out' = Append(out, ReprValues(person))
    /\ dpc' = 16
    /\ UNCHANGED <<person, func, last, prev>>

\* line 16: print(person.items())
PrintItems ==
    /\ dpc = 16
    /\ out' = Append(out, ReprItems(person))
    /\ dpc' = 19
    /\ UNCHANGED <<person, func, last, prev>>

\* line 19: print(person.get('age', 0))
GetAge ==
    /\ dpc = 19
    /\ out' = Append(out, Str(DictGet(person, "age", PyInt(0))))
    /\ dpc' = 20
    /\ UNCHANGED <<person, func, last, prev>>

\* line 20: print(person.get('city', 'NA'))
GetCity ==
    /\ dpc = 20
    /\ out' = Append(out, Str(DictGet(person, "city", PyStr("NA"))))
    /\ dpc' = 23
    /\ UNCHANGED <<person, func, last, prev>>

\* line 23: person.update({"city": "NY"})
Update ==
    /\ dpc = 23
    /\ person' = DictUpdate(person, << <<"city", PyStr("NY")>> >>)
    /\ dpc' = 24
    /\ UNCHANGED <<out, func, last, prev>>

\* line 24: print(person)
PrintPerson ==
    /\ dpc = 24
    /\ out' = Append(out, ReprDict(person))
    /\ dpc' = 25
    /\ UNCHANGED <<person, func, last, prev>>

\* ------------------------------------------------------- specification
Init ==
    /\ func = "access_dashboard"
    /\ last = NoCall
    /\ prev = NoCall
    /\ person = person0
    /\ out = <<>>
    /\ dpc = 6

Next ==
    \/ \E f \in Funcs : require_login(f)
    \/ \E u \in Users : Call(u)
    \/ CallAgain
    \/ PrintKeys
    \/ PrintValues
    \/ PrintItems
    \/ GetAge
    \/ GetCity
    \/ Update
    \/ PrintPerson

Spec == Init /\ [][Next]_vars

\* --------------------------------------------------------------- claims
\* a call has been made on the current guarded function
Called(c) == c.kind /= "none"
HasFlag(c) == HasKey(c.arg, "isLoggedIn")
Flag(c) == DictGet(c.arg, "isLoggedIn", PyNone)
\* the call returned the denial marker and never reached the wrapped function
Refused(c) == c.kind = "return" /\ c.value = DENIED /\ c.invoked = <<>>
\* the call invoked the wrapped function once, on the caller's record, and
\* ended exactly as the wrapped function did
Delegated(c) ==
    /\ c.invoked = <<c.arg>>
    /\ c.kind = Invoke(func, c.arg).kind
    /\ c.value = Invoke(func, c.arg).value

\* C1: a record whose isLoggedIn is the boolean False gets "Access Denied"
\* and the wrapped function is not invoked during the call.
C1_FalseIsDenied ==
    (Called(last) /\ HasFlag(last) /\ Flag(last) = PyBool(FALSE))
        => Refused(last)

C1_Witness == last.arg = user2 /\ last.value = PyStr("Access Denied")

\* C2: a record whose isLoggedIn is the boolean True makes the guard invoke
\* the wrapped function exactly once with that record and hand back its
\* result unchanged; user1 gets the dashboard greeting.
C2_TrueIsDelegated ==
    /\ (Called(last) /\ HasFlag(last) /\ Flag(last) = PyBool(TRUE))
           => Delegated(last)
    /\ (func = "access_dashboard" /\ last.arg = user1)
           => /\ last.kind = "return"
              /\ last.value = PyStr("Welcome Dheeraj. Access to the dashboard.")

C2_Witness ==
    /\ func = "access_dashboard"
    /\ last.arg = user1
    /\ last.invoked = <<user1>>
    /\ last.value = PyStr("Welcome Dheeraj. Access to the dashboard.")

\* C3: a record without any isLoggedIn key gets "Access Denied" and the
\* wrapped function is not invoked.
C3_AbsentIsDenied ==
    (Called(last) /\ ~HasFlag(last)) => Refused(last)

\* C4: a record whose isLoggedIn is present and falsy (False, 0, None, "",
\* empty list) raises nothing and gets the denial marker, the wrapped
\* function not being invoked.
C4_FalsyIsDenied ==
    (Called(last) /\ HasFlag(last) /\ ~Truthy(Flag(last))) => Refused(last)

\* C5 as stated: every isLoggedIn value other than the boolean False,
\* the integer 0 included, makes the guard invoke the wrapped function
\* and return its result.
C5_OnlyExactFalseDenied ==
    (Called(last) /\ HasFlag(last) /\ Flag(last) /= PyBool(FALSE))
        => Delegated(last)

\* C5 amended: the guard denies exactly the isLoggedIn values that compare
\* equal to False under == (False, 0, 0.0); every other value, non-boolean
\* ones such as None, "" or [] included, makes the guard invoke the wrapped
\* function and return its result.
C5_EqualToFalseDenied ==
    (Called(last) /\ HasFlag(last))
        => IF PyEq(Flag(last), PyBool(FALSE))
           THEN Refused(last)
           ELSE Delegated(last)

C5_Witness ==
    \/ Called(last) /\ HasFlag(last) /\ Flag(last) = PyNone
                    /\ last.invoked = <<last.arg>>
    \/ Called(last) /\ HasFlag(last) /\ Flag(last) = PyInt(0)
                    /\ last.invoked = <<>>

\* C6: every truthy isLoggedIn value (True, a non-zero number, a non-empty
\* string or list) is permitted: the wrapped function is invoked and its
\* result returned.
C6_TruthyIsDelegated ==
    (Called(last) /\ HasFlag(last) /\ Truthy(Flag(last))) => Delegated(last)

C6_Witness ==
    /\ Called(last)
    /\ HasFlag(last)
    /\ Flag(last) = PyStr("yes")
    /\ last.invoked = <<last.arg>>

\* C7: calling the guarded function twice in succession on the same
\* identity record gives the same outcome both times, and a call leaves
\* the identity record as it found it.
C7_Idempotent ==
    /\ Called(last) => last.user = last.arg
    /\ last.again =>
           /\ Called(prev)
           /\ last.arg = prev.arg
           /\ last.kind = prev.kind
           /\ last.value = prev.value
           /\ last.invoked = prev.invoked

C7_Witness == last.again /\ last.invoked /= <<>> /\ prev.invoked /= <<>>

\* C8: when the call is permitted and the wrapped function raises, the
\* same exception reaches the caller; the guard returns nothing in its
\* place.
C8_FailurePropagates ==
    (/\ Called(last)
     /\ ~PyEq(Flag(last), PyBool(FALSE))
     /\ Invoke(func, last.arg).kind = "raise")
        => /\ last.kind = "raise"
           /\ last.value = Invoke(func, last.arg).value
           /\ last.invoked = <<last.arg>>

C8_Witness == func = "failing_op" /\ last.kind = "raise"

\* C9: two identity records that agree on isLoggedIn (both without the
\* key, or both with the same value) get the same decision from the guard,
\* whatever their other fields.
C9_DecisionByFlagOnly ==
    (/\ Called(last)
     /\ Called(prev)
     /\ HasFlag(last) = HasFlag(prev)
     /\ Flag(last) = Flag(prev))
        => /\ (last.invoked = <<>>) = (prev.invoked = <<>>)
           /\ Refused(last) = Refused(prev)

C9_Witness ==
    /\ Called(last)
    /\ Called(prev)
    /\ HasFlag(last)
    /\ HasFlag(prev)
    /\ Flag(last) = Flag(prev)
    /\ DictGet(last.arg, "name", PyNone) /= DictGet(prev.arg, "name", PyNone)
    /\ last.invoked /= <<>>

\* C10: in the walkthrough get('age', 0) gives 25 and get('city', 'NA')
\* gives 'NA', both leaving person as it was; update({"city": "NY"}) then
\* adds the key city and keeps name and age, so person ends as
\* {'name': 'Alice', 'age': 25, 'city': 'NY'}.
C10_Walkthrough ==
    /\ dpc > 19 => out[4] = "25"
    /\ dpc > 20 => out[5] = "NA"
    /\ dpc <= 23 => person = person0
    /\ dpc > 23 =>
           person = << <<"name", PyStr("Alice")>>, <<"age", PyInt(25)>>,
                       <<"city", PyStr("NY")>> >>
    /\ dpc > 24 => out[6] = "{'name': 'Alice', 'age': 25, 'city': 'NY'}"

C10_Witness == dpc = 25 /\ HasKey(person, "city") /\ Len(out) = 6

====
